---- MODULE Spec2Model ----
(***************************************************************************)
(* Behaviour recognition application: the per-frame inference pipeline     *)
(* (inference.py), the worker that drives it (stream_thread.py) and the    *)
(* part of the host window that starts and ends a session (main.py).       *)
(*                                                                         *)
(* Optional values (Python None) are sequences of length 0 or 1.           *)
(* Pose vectors are short tuples of signed integers: the program's vectors *)
(* are 132 floats (x, y, z, visibility per landmark), of which z may be    *)
(* negative.                                                               *)
(***************************************************************************)
EXTENDS Integers, Sequences, FiniteSets, TLC

\* ------------------------------------------------------------------ bounds
\* Window length.  The program sets SEQUENCE_LENGTH = 30 (utils.py:15); the
\* model is parametric in it and is checked for a short window.
SEQUENCE_LENGTH == 3
\* Frames pulled from the source in one session.
MaxFrames == 5
\* Sessions started from the host window.
MaxSessions == 2
\* Frames pulled from the source in a session started from the host window.
MaxHostFrames == 3
\* Largest class score the classifier network returns (scores are 0..MaxScore).
MaxScore == 1
\* Candidates the detector returns for one frame.
MaxCands == 2
\* Largest score of a class when predict_action is checked on its own.
MaxUnitScore == 2
\* Largest numbered recording that may already exist in the directory.
MaxCount == 2

\* ------------------------------------------------------- optional values
None == <<>>
Some(x) == <<x>>
Get(o) == o[1]

\* ---------------------------------------------------------------- utils.py
\* utils.ACTIONS (ACTIONS is a reserved word of TLA+)
Actions == [i \in 0..4 |->
    <<"Running", "Punching", "Waving", "Kicking", "Walking">>[i + 1]]
MAL_ACTIONS == <<"Punching", "Kicking">>

\* x in list
InList(x, list) == \E i \in 1..Len(list) : list[i] = x

\* -------------------------------------------------------- pose_detector.py
\* np.zeros(33 * 4): the vector of a frame without a pose.
NoPose == <<0, 0>>
\* Flattened landmark vectors of frames with a pose.
Landmarks == {<<1, 1>>, <<1, -1>>}
\* results.pose_landmarks of findPose: a landmark vector or None.
PoseResults == {None} \cup {Some(l) : l \in Landmarks}

extract_keypoints(results) ==
    IF results # None THEN Get(results) ELSE NoPose

\* ------------------------------------------------------------ inference.py
\* Python's sum() over the components of a vector.
RECURSIVE sum(_)
sum(v) == IF v = <<>> THEN 0 ELSE Head(v) + sum(Tail(v))

\* list[:n], the first n entries instead of the last.
LastN_First(list, n) ==
    IF Len(list) <= n THEN list
    ELSE SubSeq(list, 1, n)

\* list[-n:]
LastN(list, n) ==
    IF Len(list) <= n THEN list
    ELSE SubSeq(list, Len(list) - n + 1, Len(list))

\* predict_pose without the truncation to the last SEQUENCE_LENGTH vectors.
predict_pose_NoTruncate(results, sequence) ==
    LET keypoints == extract_keypoints(results)
    IN  [keypoints |-> keypoints,
         sequence  |-> Append(sequence, keypoints)]

predict_pose(results, sequence) ==
    LET keypoints == extract_keypoints(results)
    IN  [keypoints |-> keypoints,
         sequence  |-> LastN(Append(sequence, keypoints), SEQUENCE_LENGTH)]

\* has_valid_pose without the test of the window length.
has_valid_pose_NoLength(keypoints, sequence) ==
    sum(keypoints) # 0

\* has_valid_pose without the test of the newest vector.
has_valid_pose_NoSum(keypoints, sequence) ==
    Len(sequence) = SEQUENCE_LENGTH

has_valid_pose(keypoints, sequence) ==
    sum(keypoints) # 0 /\ Len(sequence) = SEQUENCE_LENGTH

\* An argmax that returns the last index holding the maximum.
argmax_Last(res) ==
    CHOOSE i \in DOMAIN res :
        /\ \A j \in DOMAIN res : res[j] <= res[i]
        /\ \A j \in DOMAIN res : j > i => res[j] < res[i]

\* np.argmax: the first index holding the maximum.
argmax(res) ==
    CHOOSE i \in DOMAIN res :
        /\ \A j \in DOMAIN res : res[j] <= res[i]
        /\ \A j \in DOMAIN res : j < i => res[j] < res[i]

\* Score vectors new_model.predict may return for a window.
Scores == [0..4 -> 0..MaxScore]

predict_action(res) ==
    LET class_idx == argmax(res)
    IN  [action |-> Actions[class_idx], probability |-> res[class_idx]]

\* The ActionDetectorResult values predict_action can return.
ActionResults == {predict_action(res) : res \in Scores}

\* Score vectors for predict_action checked on its own.
UnitScores == [0..4 -> 0..MaxUnitScore]

\* Rows and columns of a frame.
FrameSize == 4
\* Boxes (center x, center y, width, height) the detector may report, in
\* quarters of a pixel; the detector clips its boxes to the frame.
Boxes == {[cx4 |-> 8, cy4 |-> 8, w4 |-> 10, h4 |-> 12],
          [cx4 |-> 10, cy4 |-> 11, w4 |-> 12, h4 |-> 10]}
\* One row of the detector's output: its box, the track id model.track
\* assigns, the confidence in tenths, the category (0 is person).
Candidates == [box : Boxes, track_id : 1..2, conf10 : {5, 10}, cls : {0, 1}]
\* What the detector may return for a frame (model.predict(frame), which is
\* not restricted to a category): up to MaxCands rows, any row first, the
\* rows after it sharing one box.
Detections ==
    UNION {{b \in [1..n -> Candidates] :
               \A i \in 2..n : b[i].box.cx4 = 8} : n \in 0..MaxCands}

\* int() of a number given in quarters: truncation towards zero.
int4(q4) == IF q4 >= 0 THEN q4 \div 4 ELSE -((-q4) \div 4)

\* The corner computed from the truncated center and the truncated extent.
top_left_TruncFirst(center4, extent4) ==
    int4(center4) - int4(extent4) \div 2

\* int(x - w/2), int(y - h/2)
top_left(center4, extent4) == int4(center4 - extent4 \div 2)

\* A bound of a Python slice over n items: negative bounds count from the
\* end, and bounds outside the items are clipped.
slice_bound(i, n) ==
    IF i < 0 THEN (IF i + n < 0 THEN 0 ELSE i + n)
    ELSE IF i > n THEN n ELSE i

\* frame[y:y+h, x:x+w]: the (row, column) pairs of the region.
roi(x, y, w, h) ==
    {<<r, c>> : r \in slice_bound(y, FrameSize)..(slice_bound(y + h, FrameSize) - 1),
                c \in slice_bound(x, FrameSize)..(slice_bound(x + w, FrameSize) - 1)}

\* TrackingResult(x, y, w, h, int(id), roi) of one row; boxes.data[.][4] of
\* a prediction row (x1, y1, x2, y2, conf, cls) is the confidence.
TrackingResult(row) ==
    LET x == top_left(row.box.cx4, row.box.w4)
        y == top_left(row.box.cy4, row.box.h4)
        w == int4(row.box.w4)
        h == int4(row.box.h4)
    IN  [x |-> x, y |-> y, w |-> w, h |-> h,
         id |-> row.conf10 \div 10,
         roi |-> roi(x, y, w, h)]

\* track_person building its result from the last row instead of row 0.
track_person_LastRow(boxes) ==
    IF Len(boxes) > 0
    THEN Some(TrackingResult(boxes[Len(boxes)]))
    ELSE None

\* track_person: the row at index 0, if there is any.
track_person(boxes) ==
    IF Len(boxes) > 0
    THEN Some(TrackingResult(boxes[1]))
    ELSE None

\* The values track_person returns in a session: for no detection, and for
\* each row the detector may put first, the subject keeping one box.
TrackingResults ==
    {track_person(boxes) :
        boxes \in {<<>>} \cup {<<c>> : c \in {d \in Candidates : d.box.cx4 = 8}}}

\* ---------------------------------------------------------- video_source.py
\* utils.WIDTH, utils.HEIGHT: the size every drone frame is resized to.
WIDTH == 1200
HEIGHT == 800

\* Frames the drone's video channel may deliver: a picture and its size.
DroneFrames == [img : 1..2, width : {960, WIDTH}, height : {720, HEIGHT}]

\* cv2.resize(myFrame, (WIDTH, HEIGHT))
resize(frame) == [frame EXCEPT !.width = WIDTH, !.height = HEIGHT]

\* Values cap.read() of cv2.VideoCapture returns: (False, None) or a frame.
CamFrames == {"frame a", "frame b", "frame c"}
CapReads == {<<FALSE, None>>} \cup {<<TRUE, Some(f)>> : f \in CamFrames}

\* Webcam.__init__ and PreRecorded.__init__: VideoSource.__init__ sets
\* _VideoSource__has_frame, the subclass sets its own mangled __has_frame.
NewSource(kind) ==
    [kind |-> kind, base_has_frame |-> FALSE, has_frame |-> FALSE,
     frame |-> None]

\* Webcam.next_frame and PreRecorded.next_frame: the subclass's attributes
\* take what cap.read() returned.
next_frame(src, read) ==
    [src EXCEPT !.has_frame = read[1], !.frame = read[2]]

\* VideoSource.has_frame: reads _VideoSource__has_frame.
has_frame(src) == src.base_has_frame

\* ------------------------------------------------------------------ utils.py
StreamTypes == {"Webcam", "Drone"}
\* stream_type + extension and stream_type + "_" + str(count) + extension
PlainName(stream_type, extension) == <<stream_type, extension>>
NumberedName(stream_type, count, extension) ==
    <<stream_type, "_", count, extension>>
\* Names the recordings directory may hold before a call.
FileNames ==
    {PlainName(t, ".avi") : t \in StreamTypes}
    \cup {NumberedName(t, k, ".avi") : t \in StreamTypes, k \in 1..MaxCount}

RECURSIVE get_unique_filename(_, _, _, _)
\* get_unique_filename that tries the suffix _1 only.
get_unique_filename_Once(existing, stream_type, extension, count) ==
    IF count = 0 /\ PlainName(stream_type, extension) \in existing
    THEN NumberedName(stream_type, 1, extension)
    ELSE PlainName(stream_type, extension)

\* get_unique_filename: `count` is 0 while result is stream_type, and
\* afterwards the number of the suffix under test; the loop runs while the
\* name exists.
get_unique_filename(existing, stream_type, extension, count) ==
    LET result == IF count = 0
                  THEN PlainName(stream_type, extension)
                  ELSE NumberedName(stream_type, count, extension)
    IN  IF result \in existing
        THEN get_unique_filename(existing, stream_type, extension, count + 1)
        ELSE result

\* ------------------------------------------------- inference.py (recorder)
\* get_recorder without the test of the filename.
get_recorder_NoCheck(filename) == "open"

\* get_recorder: ValueError when the filename is None, else a VideoWriter.
get_recorder(filename) ==
    IF filename = None THEN "raise" ELSE "open"

\* ------------------------------------------------------------------ main.py
\* Texts the filename dialog may return when accepted.
DialogTexts == {"", "clip.mp4"}
\* name[-4:] != ".avi" and name[-4:] != ".mp4"  =>  name += ".avi"
WithExtension(text) ==
    IF text = "clip.mp4" THEN text ELSE ".avi"

\* What the window's message label shows: hidden, "Streaming in progress ...",
\* "Filename: '<name>' saved successfully!", or the TypeError of end_stream.
Label(kind, filename) == [kind |-> kind, name |-> filename]

\* ------------------------------------------------------------------- state
VARIABLES
    is_record,        \* MainWindow.__is_record (record checkbox)
    is_alert,         \* MainWindow.__is_alert (alert checkbox)
    name,             \* MainWindow.__name
    start_enabled,    \* start stream button enabled
    pending_complete, \* a complete signal queued to the host window
    pc,               \* position of the worker's run()
    w_record,         \* StreamWorker.__record
    w_filename,       \* StreamWorker.__filename
    w_alert,          \* StreamWorker.__alert
    recorder,         \* StreamWorker.__recorder: "unset", "none", "open", "released"
    source,           \* the video source: "new", "started", "exited"
    sequence,         \* detector.sequence
    mal_people,       \* run()'s mal_people
    tracking_result,  \* tracking_inference's tracking_result of the last frame
    keypoints,        \* keypoints predict_pose returned for the last frame
    track_result,     \* run()'s track_result of the last frame
    action_result,    \* run()'s action_result of the last frame
    alerts,           \* alert signals emitted in the session, in order
    completes,        \* complete signals emitted in the session
    written,          \* frames written to the recorder in the session
    appended,         \* every vector predict_pose appended in the session
    classified,       \* identities tracked with a malicious label in the session
    frames,           \* frames pulled from the source in the session
    raised,           \* why run() ended with an exception, if it did
    sessions,         \* workers handed to the thread pool so far
    late_miss,        \* the tracker missed a frame after a window update
    past_alerted,     \* identities alerted in earlier sessions
    boxes,            \* track_person: what the detector returned for the frame
    tracked,          \* track_person: the value it returned
    drone,            \* Drone: __has_frame and __frame
    drone_call,       \* Drone.next_frame: the last call and how it ended
    message,          \* MainWindow.__message_label, or how end_stream failed
    h_sequence,       \* test_inference.stream: its detector's sequence
    h_mal_people,     \* test_inference.stream: mal_people
    alert_received,   \* test_inference.stream: alert_received
    scores,           \* predict_action: the scores new_model.predict returned
    predicted,        \* predict_action: the value it returned
    files,            \* names of the files in the recordings directory
    unique,           \* get_unique_filename: the last call and its value
    cam,              \* a Webcam or PreRecorded source: its attributes
    cam_call          \* the value its last next_frame() returned

hostVars == <<is_record, is_alert, name, start_enabled, pending_complete,
              past_alerted, message>>
workerVars == <<pc, w_record, w_filename, w_alert, recorder, source>>
\* The test harness stream() run on the frames of the session.
harnessVars == <<h_sequence, h_mal_people, alert_received>>
frameVars == <<sequence, mal_people, tracking_result, keypoints,
               track_result, action_result, alerts, written, appended,
               classified, frames, late_miss, harnessVars>>
\* State of the components that are specified on their own.
trackVars == <<boxes, tracked>>
droneVars == <<drone, drone_call>>
camVars == <<cam, cam_call>>
classifierVars == <<scores, predicted>>
fileVars == <<files, unique>>
unitVars == <<trackVars, droneVars, camVars, classifierVars, fileVars>>
vars == <<hostVars, workerVars, frameVars, completes, raised, sessions,
          unitVars>>

\* MainWindow.__init__: nothing recorded, nothing alerted, no worker.
HostInit ==
    /\ is_record = FALSE
    /\ is_alert = FALSE
    /\ name = None
    /\ start_enabled = TRUE
    /\ pending_complete = FALSE
    /\ past_alerted = {}
    /\ message = Label("hidden", None)

\* The separately specified components before their first call: a drone
\* source that has been started, a tracker that has seen no frame.
NoCalls ==
    /\ boxes = <<>>
    /\ tracked = None
    /\ drone = [has_frame |-> FALSE, frame |-> None]
    /\ drone_call = None
    /\ cam = None
    /\ cam_call = None
    /\ scores = None
    /\ predicted = None
    /\ unique = None

\* ... and an empty recordings directory.
UnitInit ==
    /\ NoCalls
    /\ files = {}

\* The state of a session before its first frame.
FreshSession ==
    /\ recorder = "unset"
    /\ source = "new"
    /\ sequence = <<>>
    /\ mal_people = <<>>
    /\ tracking_result = None
    /\ keypoints = None
    /\ track_result = None
    /\ action_result = None
    /\ alerts = <<>>
    /\ completes = 0
    /\ written = 0
    /\ appended = <<>>
    /\ classified = {}
    /\ frames = 0
    /\ raised = None
    /\ late_miss = FALSE
    /\ h_sequence = <<>>
    /\ h_mal_people = <<>>
    /\ alert_received = <<>>

\* Filenames a caller may hand to StreamWorker.
Filenames == {None, Some("clip.avi")}

\* One session: a worker constructed with any arguments and handed to the
\* thread pool.
Init ==
    /\ HostInit
    /\ FreshSession
    /\ pc = "queued"
    /\ w_record \in BOOLEAN
    /\ w_filename \in Filenames
    /\ w_alert \in BOOLEAN
    /\ sessions = 1
    /\ UnitInit

\* No worker has been created.
NoWorker ==
    /\ FreshSession
    /\ pc = "none"
    /\ w_record = FALSE
    /\ w_filename = None
    /\ w_alert = FALSE
    /\ sessions = 0

\* The host window before any session.
InitHost ==
    /\ HostInit
    /\ NoWorker
    /\ UnitInit

\* The host window before any session, with any recordings left by earlier
\* runs of the program.
InitFiles ==
    /\ HostInit
    /\ NoWorker
    /\ NoCalls
    /\ files \in SUBSET FileNames

\* ------------------------------------------------------- the host window
\* The record checkbox is toggled.
setIsRecord ==
    /\ \E record \in BOOLEAN : is_record' = record
    /\ is_record' # is_record
    /\ UNCHANGED <<is_alert, name, start_enabled, pending_complete,
                   past_alerted, message, workerVars, frameVars, completes, raised,
                   sessions, unitVars>>

\* The alert checkbox read by the running worker.
setIsAlert_Live ==
    /\ \E alert \in BOOLEAN : is_alert' = alert
    /\ is_alert' # is_alert
    /\ w_alert' = is_alert'
    /\ UNCHANGED <<is_record, name, start_enabled, pending_complete,
                   past_alerted, message, pc, w_record, w_filename, recorder,
                   source, frameVars, completes, raised, sessions, unitVars>>

\* The alert checkbox is toggled.
setIsAlert ==
    /\ \E alert \in BOOLEAN : is_alert' = alert
    /\ is_alert' # is_alert
    /\ UNCHANGED <<is_record, name, start_enabled, pending_complete,
                   past_alerted, message, workerVars, frameVars, completes, raised,
                   sessions, unitVars>>

\* The filename dialog is cancelled: __name holds the dialog's text, no worker.
startStreamCancelled ==
    /\ start_enabled
    /\ is_record
    /\ name' = Some("")
    /\ UNCHANGED <<is_record, is_alert, start_enabled, pending_complete,
                   past_alerted, message, workerVars, frameVars, completes, raised,
                   sessions, unitVars>>

\* startStream leaving the start button enabled.
startStream_KeepsEnabled ==
    /\ start_enabled
    /\ sessions < MaxSessions
    /\ IF is_record
       THEN \E text \in DialogTexts : name' = Some(WithExtension(text))
       ELSE name' = None
    /\ w_record' = is_record
    /\ w_filename' = name'
    /\ w_alert' = is_alert
    /\ start_enabled' = start_enabled
    /\ message' = Label("streaming", None)
    /\ pc' = "queued"
    /\ recorder' = "unset"
    /\ source' = "new"
    /\ tracking_result' = None
    /\ keypoints' = None
    /\ track_result' = None
    /\ action_result' = None
    /\ alerts' = <<>>
    /\ completes' = 0
    /\ written' = 0
    /\ appended' = <<>>
    /\ classified' = {}
    /\ frames' = 0
    /\ raised' = None
    /\ late_miss' = FALSE
    /\ h_sequence' = <<>>
    /\ h_mal_people' = <<>>
    /\ alert_received' = <<>>
    /\ past_alerted' = past_alerted \cup {alerts[i].id : i \in 1..Len(alerts)}
    /\ sessions' = sessions + 1
    /\ UNCHANGED <<is_record, is_alert, pending_complete,
                   sequence, mal_people, unitVars>>

\* A worker is created from the checkboxes and handed to the thread pool.
startStream ==
    /\ start_enabled
    /\ sessions < MaxSessions
    /\ IF is_record
       THEN \E text \in DialogTexts : name' = Some(WithExtension(text))
       ELSE name' = None
    /\ w_record' = is_record
    /\ w_filename' = name'
    /\ w_alert' = is_alert
    /\ start_enabled' = FALSE
    /\ message' = Label("streaming", None)
    /\ pc' = "queued"
    /\ recorder' = "unset"
    /\ source' = "new"
    /\ tracking_result' = None
    /\ keypoints' = None
    /\ track_result' = None
    /\ action_result' = None
    /\ alerts' = <<>>
    /\ completes' = 0
    /\ written' = 0
    /\ appended' = <<>>
    /\ classified' = {}
    /\ frames' = 0
    /\ raised' = None
    /\ late_miss' = FALSE
    /\ h_sequence' = <<>>
    /\ h_mal_people' = <<>>
    /\ alert_received' = <<>>
    /\ past_alerted' = past_alerted \cup {alerts[i].id : i \in 1..Len(alerts)}
    /\ sessions' = sessions + 1
    /\ UNCHANGED <<is_record, is_alert, pending_complete,
                   sequence, mal_people, unitVars>>

\* The complete signal is handled: the button is enabled, then the message
\* is built from the record checkbox and __name as they are now; str + None
\* raises TypeError.
end_stream ==
    /\ pending_complete
    /\ pending_complete' = FALSE
    /\ start_enabled' = TRUE
    /\ message' = IF is_record
                  THEN IF name = None
                       THEN Label("TypeError", None)
                       ELSE Label("saved", name)
                  ELSE Label("hidden", None)
    /\ UNCHANGED <<is_record, is_alert, name, past_alerted,
                   workerVars, frameVars, completes, raised, sessions,
                   unitVars>>

\* ------------------------------------------------------------ the worker
\* run() reusing the detector and the mal_people of the previous worker.
runStart_KeepsState ==
    /\ pc = "queued"
    /\ sequence' = sequence
    /\ mal_people' = mal_people
    /\ source' = "started"
    /\ IF w_record
       THEN IF get_recorder(w_filename) = "raise"
            THEN /\ recorder' = recorder
                 /\ pc' = "raised"
                 /\ raised' = Some("Filename cannot be None if record is True")
            ELSE /\ recorder' = "open"
                 /\ pc' = "loop"
                 /\ raised' = raised
       ELSE /\ recorder' = "none"
            /\ pc' = "loop"
            /\ raised' = raised
    /\ UNCHANGED <<hostVars, w_record, w_filename, w_alert,
                   tracking_result, keypoints, track_result, action_result,
                   alerts, written, appended, classified, frames, late_miss,
                   harnessVars, completes, sessions, unitVars>>

\* run() up to the main loop: detector, mal_people, source.start(), recorder.
runStart ==
    /\ pc = "queued"
    /\ sequence' = <<>>
    /\ mal_people' = <<>>
    /\ source' = "started"
    /\ IF w_record
       THEN IF get_recorder(w_filename) = "raise"
            THEN /\ recorder' = recorder
                 /\ pc' = "raised"
                 /\ raised' = Some("Filename cannot be None if record is True")
            ELSE /\ recorder' = "open"
                 /\ pc' = "loop"
                 /\ raised' = raised
       ELSE /\ recorder' = "none"
            /\ pc' = "loop"
            /\ raised' = raised
    /\ UNCHANGED <<hostVars, w_record, w_filename, w_alert,
                   tracking_result, keypoints, track_result, action_result,
                   alerts, written, appended, classified, frames, late_miss,
                   harnessVars, completes, sessions, unitVars>>

\* next_frame() reports no frame: run() raises.
noFrame ==
    /\ pc = "loop"
    /\ pc' = "raised"
    /\ raised' = Some("No frame captured")
    /\ UNCHANGED <<hostVars, w_record, w_filename, w_alert, recorder, source,
                   frameVars, completes, sessions, unitVars>>

\* Line 110 of run() without the test of mal_people.
AlertDue_NoDedup(track, action, people) ==
    InList(Get(action).action, MAL_ACTIONS)

\* The alert condition without the test of the label.
AlertDue_AnyAction(track, action, people) ==
    ~InList(Get(track).id, people)

\* The alert condition with Kicking as the only malicious action.
AlertDue_KickingOnly(track, action, people) ==
    /\ Get(action).action = "Kicking"
    /\ ~InList(Get(track).id, people)

\* Line 110 of run(): a malicious action of a person not alerted before.
AlertDue(track, action, people) ==
    /\ InList(Get(action).action, MAL_ACTIONS)
    /\ ~InList(Get(track).id, people)

\* A recorder that keeps the first frame only.
recorder_write_FirstOnly(rec, count) ==
    IF rec # "none" /\ count = 0 THEN 1 ELSE count

\* Lines 124-125 of run(): the frame is written if there is a recorder.
recorder_write(rec, count) ==
    IF rec # "none" THEN count + 1 ELSE count

\* The rest of an iteration after inference: alert, record, key poll.
\* Reading action_result.action of an absent result raises AttributeError
\* and ends run().
FrameTail(track, action, quit) ==
    /\ track_result' = track
    /\ action_result' = action
    /\ frames' = frames + 1
    /\ IF w_alert /\ track # None /\ action = None
       THEN /\ pc' = "raised"
            /\ raised' = Some("AttributeError")
            /\ UNCHANGED <<mal_people, alerts, classified, written>>
       ELSE /\ IF w_alert /\ track # None
                  /\ AlertDue(track, action, mal_people)
               THEN /\ mal_people' = Append(mal_people, Get(track).id)
                    /\ alerts' = Append(alerts,
                           [id |-> Get(track).id,
                            action |-> Get(action).action])
               ELSE UNCHANGED <<mal_people, alerts>>
            /\ classified' =
                 IF w_alert /\ track # None /\ action # None
                    /\ InList(Get(action).action, MAL_ACTIONS)
                 THEN classified \cup {Get(track).id}
                 ELSE classified
            /\ written' = recorder_write(recorder, written)
            /\ pc' = IF quit THEN "release" ELSE "loop"
            /\ raised' = raised
    /\ UNCHANGED <<hostVars, w_record, w_filename, w_alert, recorder, source,
                   completes, sessions, unitVars>>

\* non_tracking_inference on a frame whose pose estimation gives `results`
\* and whose classification, if it is run, gives `a`.
non_tracking_inference(results, a, seq) ==
    LET p == predict_pose(results, seq)
    IN  [updated  |-> TRUE,
         keypoints |-> p.keypoints,
         sequence |-> p.sequence,
         action   |-> IF has_valid_pose(p.keypoints, p.sequence)
                      THEN Some(a) ELSE None]

\* tracking_inference returning the tracking result of a frame whose pose
\* is not valid, without an action result.
tracking_inference_TrackOnly(tracking, results, a, seq) ==
    IF tracking = None
    THEN [updated |-> FALSE, keypoints |-> NoPose, sequence |-> seq,
          track |-> None, action |-> None]
    ELSE LET p == predict_pose(results, seq)
         IN  [updated |-> TRUE, keypoints |-> p.keypoints,
              sequence |-> p.sequence,
              track |-> tracking,
              action |-> IF has_valid_pose(p.keypoints, p.sequence)
                         THEN Some(a) ELSE None]

\* tracking_inference that estimates the pose of the whole frame, and so
\* appends a vector, also when nobody is tracked.
tracking_inference_MissAppends(tracking, results, a, seq) ==
    LET p == predict_pose(results, seq)
    IN  IF tracking # None /\ has_valid_pose(p.keypoints, p.sequence)
        THEN [updated |-> TRUE, keypoints |-> p.keypoints,
              sequence |-> p.sequence,
              track |-> tracking, action |-> Some(a)]
        ELSE [updated |-> TRUE, keypoints |-> p.keypoints,
              sequence |-> p.sequence,
              track |-> None, action |-> None]

\* tracking_inference on a frame for which track_person gives `tracking`.
tracking_inference(tracking, results, a, seq) ==
    IF tracking = None
    THEN [updated |-> FALSE, keypoints |-> NoPose, sequence |-> seq,
          track |-> None, action |-> None]
    ELSE LET p == predict_pose(results, seq)
         IN  IF has_valid_pose(p.keypoints, p.sequence)
             THEN [updated |-> TRUE, keypoints |-> p.keypoints,
                   sequence |-> p.sequence,
                   track |-> tracking, action |-> Some(a)]
             ELSE [updated |-> TRUE, keypoints |-> p.keypoints,
                   sequence |-> p.sequence,
                   track |-> None, action |-> None]

\* The window update of an iteration, as the inference reports it.
WindowUpdate(r) ==
    /\ sequence' = r.sequence
    /\ IF r.updated
       THEN /\ keypoints' = Some(r.keypoints)
            /\ appended' = Append(appended, r.keypoints)
       ELSE UNCHANGED <<keypoints, appended>>
    /\ late_miss' = (late_miss \/ (~r.updated /\ appended # <<>>))

\* One iteration of the test harness stream() (test_inference.py:34-50) on
\* the same frame: the same inference on its own detector, then its own
\* alert test, which appends to alert_received instead of emitting.
HarnessFrame(tracking, results, a) ==
    LET r == IF w_alert
             THEN tracking_inference(tracking, results, a, h_sequence)
             ELSE [track |-> None,
                   sequence |->
                       non_tracking_inference(results, a, h_sequence).sequence]
    IN  /\ h_sequence' = r.sequence
        /\ IF /\ w_alert
              /\ r.track # None
              /\ r.action # None
              /\ InList(Get(r.action).action, MAL_ACTIONS)
              /\ ~InList(Get(r.track).id, h_mal_people)
           THEN /\ h_mal_people' = Append(h_mal_people, Get(r.track).id)
                /\ alert_received' = Append(alert_received,
                       [id |-> Get(r.track).id,
                        action |-> Get(r.action).action])
           ELSE UNCHANGED <<h_mal_people, alert_received>>

\* An iteration with a frame, alert disabled, in a session of at most `max`
\* frames.
NonTrackingFrame(max) ==
    /\ pc = "loop"
    /\ ~w_alert
    /\ frames < max
    /\ \E results \in PoseResults, a \in ActionResults, quit \in BOOLEAN :
         LET r == non_tracking_inference(results, a, sequence)
         IN  /\ WindowUpdate(r)
             /\ tracking_result' = tracking_result
             /\ FrameTail(track_result, r.action, quit)
             /\ HarnessFrame(None, results, a)

\* An iteration with a frame, alert enabled, in a session of at most `max`
\* frames.
TrackingFrame(max) ==
    /\ pc = "loop"
    /\ w_alert
    /\ frames < max
    /\ \E tracking \in TrackingResults, results \in PoseResults,
          a \in ActionResults, quit \in BOOLEAN :
         LET r == tracking_inference(tracking, results, a, sequence)
         IN  /\ WindowUpdate(r)
             /\ tracking_result' = tracking
             /\ FrameTail(r.track, r.action, quit)
             /\ HarnessFrame(tracking, results, a)

nonTrackingFrame == NonTrackingFrame(MaxFrames)
trackingFrame == TrackingFrame(MaxFrames)
hostNonTrackingFrame == NonTrackingFrame(MaxHostFrames)
hostTrackingFrame == TrackingFrame(MaxHostFrames)

\* The loop's exit leaving the recorder open.
releaseRecorder_Skip ==
    /\ pc = "release"
    /\ recorder' = recorder
    /\ pc' = "exit"
    /\ UNCHANGED <<hostVars, w_record, w_filename, w_alert, source,
                   frameVars, completes, raised, sessions, unitVars>>

\* After the loop: the recorder is released.
releaseRecorder ==
    /\ pc = "release"
    /\ recorder' = IF recorder # "none" THEN "released" ELSE recorder
    /\ pc' = "exit"
    /\ UNCHANGED <<hostVars, w_record, w_filename, w_alert, source,
                   frameVars, completes, raised, sessions, unitVars>>

exitSource ==
    /\ pc = "exit"
    /\ source' = "exited"
    /\ pc' = "emit"
    /\ UNCHANGED <<hostVars, w_record, w_filename, w_alert, recorder,
                   frameVars, completes, raised, sessions, unitVars>>

emitComplete ==
    /\ pc = "emit"
    /\ completes' = completes + 1
    /\ pending_complete' = TRUE
    /\ pc' = "done"
    /\ UNCHANGED <<is_record, is_alert, name, start_enabled, past_alerted,
                   message, w_record, w_filename, w_alert, recorder, source,
                   frameVars, raised, sessions, unitVars>>

\* inference.track_person on one frame's detections.
trackPerson ==
    /\ \E b \in Detections :
           /\ boxes' = b
           /\ tracked' = track_person(b)
    /\ UNCHANGED <<hostVars, workerVars, frameVars, completes, raised,
                   sessions, droneVars, camVars, classifierVars, fileVars>>

\* Drone.next_frame when send_rc_control raises: the call is made before
\* the try block, so the exception leaves next_frame.
droneHeartbeatFails ==
    /\ drone_call' = Some([heartbeat |-> "raise", read |-> "skipped",
                           kind |-> "raise", value |-> <<>>])
    /\ UNCHANGED <<hostVars, workerVars, frameVars, completes, raised,
                   sessions, drone, trackVars, camVars, classifierVars,
                   fileVars>>

\* Drone.next_frame when get_frame_read raises: the bare except returns
\* (False, None) and keeps the previous __frame.
droneReadFails ==
    /\ drone' = [drone EXCEPT !.has_frame = FALSE]
    /\ drone_call' = Some([heartbeat |-> "ok", read |-> "raise",
                           kind |-> "return", value |-> <<FALSE, None>>])
    /\ UNCHANGED <<hostVars, workerVars, frameVars, completes, raised,
                   sessions, trackVars, camVars, classifierVars, fileVars>>

\* Drone.next_frame when both channels answer.
droneNextFrame ==
    /\ \E f \in DroneFrames :
           /\ drone' = [has_frame |-> TRUE, frame |-> Some(resize(f))]
           /\ drone_call' = Some([heartbeat |-> "ok", read |-> "ok",
                                  kind |-> "return",
                                  value |-> <<TRUE, Some(resize(f))>>])
    /\ UNCHANGED <<hostVars, workerVars, frameVars, completes, raised,
                   sessions, trackVars, camVars, classifierVars, fileVars>>

\* inference.predict_action on one score vector.
predictAction ==
    /\ \E res \in UnitScores :
           /\ scores' = Some(res)
           /\ predicted' = Some(predict_action(res))
    /\ UNCHANGED <<hostVars, workerVars, frameVars, completes, raised,
                   sessions, trackVars, droneVars, camVars, fileVars>>

\* utils.get_unique_filename for a stream type, as startStream calls it.
getUniqueFilename ==
    /\ \E t \in StreamTypes :
           unique' = Some([stream_type |-> t, extension |-> ".avi",
                           value |-> get_unique_filename(files, t, ".avi", 0)])
    /\ UNCHANGED <<hostVars, workerVars, frameVars, completes, raised,
                   sessions, trackVars, droneVars, camVars, classifierVars,
                   files>>

\* A recording is made under the proposed name: cv2.VideoWriter creates
\* the file (while the directory holds names up to MaxCount only).
recordFile ==
    /\ unique # None
    /\ Get(unique).value \in FileNames
    /\ files' = files \cup {Get(unique).value}
    /\ unique' = None
    /\ UNCHANGED <<hostVars, workerVars, frameVars, completes, raised,
                   sessions, trackVars, droneVars, camVars, classifierVars>>

\* Webcam() or PreRecorded(filename) is constructed.
newSource ==
    /\ \E kind \in {"Webcam", "PreRecorded"} : cam' = Some(NewSource(kind))
    /\ cam_call' = None
    /\ UNCHANGED <<hostVars, workerVars, frameVars, completes, raised,
                   sessions, trackVars, droneVars, classifierVars, fileVars>>

\* next_frame() of the Webcam or PreRecorded source.
camNextFrame ==
    /\ cam # None
    /\ \E read \in CapReads :
           /\ cam' = Some(next_frame(Get(cam), read))
           /\ cam_call' = Some(<<next_frame(Get(cam), read).has_frame,
                                 next_frame(Get(cam), read).frame>>)
    /\ UNCHANGED <<hostVars, workerVars, frameVars, completes, raised,
                   sessions, trackVars, droneVars, classifierVars, fileVars>>

\* One session of a worker.
Next ==
    \/ runStart
    \/ noFrame
    \/ nonTrackingFrame
    \/ trackingFrame
    \/ releaseRecorder
    \/ exitSource
    \/ emitComplete

Spec == Init /\ [][Next]_vars

\* The host window and the workers it starts.
NextHost ==
    \/ setIsRecord
    \/ setIsAlert
    \/ startStreamCancelled
    \/ startStream
    \/ end_stream
    \/ runStart
    \/ noFrame
    \/ hostNonTrackingFrame
    \/ hostTrackingFrame
    \/ releaseRecorder
    \/ exitSource
    \/ emitComplete

HostSpec == InitHost /\ [][NextHost]_vars

\* The tracker called on arbitrary detections.
NextUnit ==
    \/ trackPerson

UnitSpec == InitHost /\ [][NextUnit]_vars

\* The video sources called with arbitrary answers of their devices.
NextSource ==
    \/ droneHeartbeatFails
    \/ droneReadFails
    \/ droneNextFrame
    \/ newSource
    \/ camNextFrame

SourceSpec == InitHost /\ [][NextSource]_vars

\* The classifier called on arbitrary score vectors.
NextClassifier ==
    \/ predictAction

ClassifierSpec == InitHost /\ [][NextClassifier]_vars

\* The recordings directory, filled under the names get_unique_filename
\* proposes.
NextFiles ==
    \/ getUniqueFilename
    \/ recordFile

FileSpec == InitFiles /\ [][NextFiles]_vars

\* ------------------------------------------------------------------ claims
Min(a, b) == IF a <= b THEN a ELSE b
\* A step that processes a frame pulled from the source.
FrameStep == frames' = frames + 1
\* The number of alerts emitted for an identity in the session.
AlertsFor(id) == Cardinality({i \in 1..Len(alerts) : alerts[i].id = id})
\* The identities a TrackingResult can carry.
Ids == {Get(t).id : t \in TrackingResults \ {None}}

\* C1: in both modes the pose window never holds more than SEQUENCE_LENGTH
\* vectors, and after k window updates it holds exactly min(k, SEQUENCE_LENGTH).
C1_WindowLength ==
    /\ Len(sequence) <= SEQUENCE_LENGTH
    /\ Len(sequence) = Min(Len(appended), SEQUENCE_LENGTH)

C1_Witness ==
    /\ w_alert
    /\ Len(appended) > SEQUENCE_LENGTH
    /\ Len(sequence) = SEQUENCE_LENGTH

\* C2: in a tracking session an alert is emitted for an identity exactly while
\* processing the first frame on which that identity is tracked and classified
\* with a malicious label, with that frame's label; later frames of the same
\* identity emit nothing, so an identity has at most one alert in the session.
C2_AlertOneShot ==
    /\ [](\A id \in Ids : AlertsFor(id) = IF id \in classified THEN 1 ELSE 0)
    /\ [][FrameStep =>
            IF /\ w_alert
               /\ track_result' # None
               /\ InList(Get(action_result').action, MAL_ACTIONS)
               /\ Get(track_result').id \notin classified
            THEN alerts' = Append(alerts,
                     [id |-> Get(track_result').id,
                      action |-> Get(action_result').action])
            ELSE alerts' = alerts]_vars

\* The same identity is classified Kicking after it was alerted for Punching.
C2_Witness ==
    /\ w_alert
    /\ track_result # None
    /\ Get(action_result).action = "Kicking"
    /\ Len(alerts) = 1
    /\ alerts[1] = [id |-> Get(track_result).id, action |-> "Punching"]

\* C3: an ActionResult is present for a frame only if the window holds
\* SEQUENCE_LENGTH vectors after the frame's update and the vector appended
\* for the frame is not the zero vector.
C3_ResultOnlyWhenReady ==
    action_result # None =>
        /\ Len(sequence) = SEQUENCE_LENGTH
        /\ keypoints # None
        /\ Get(keypoints) = sequence[Len(sequence)]
        /\ Get(keypoints) # NoPose

C3_Witness ==
    /\ action_result # None
    /\ Len(appended) > SEQUENCE_LENGTH

\* C4: has_valid_pose is true if and only if the window holds SEQUENCE_LENGTH
\* vectors and the most recently appended vector is not the zero vector.
C4_IsReadyIffNonZero ==
    keypoints # None =>
        (has_valid_pose(Get(keypoints), sequence)
            <=> (Len(sequence) = SEQUENCE_LENGTH /\ Get(keypoints) # NoPose))

\* C5: when next_frame reports no frame the recorder, if any, is released and
\* the source's exit() has been called when the worker finishes.
C5_NoFrameUnwinds ==
    raised = Some("No frame captured") =>
        /\ recorder \in {"none", "released"}
        /\ source = "exited"

\* C6: a session whose frame loop has exited, by the quit key or by a missing
\* frame, has emitted complete exactly once when its worker has finished.
C6_CompleteOnExit ==
    (pc = "done" \/ raised = Some("No frame captured")) => completes = 1

\* C7: a frame of a tracking session on which the tracker finds nobody leaves
\* the pose window as it was and yields no result and no alert.
C7_TrackingMissKeepsWindow ==
    [][(FrameStep /\ w_alert /\ tracking_result' = None) =>
            /\ sequence' = sequence
            /\ appended' = appended
            /\ track_result' = None
            /\ action_result' = None
            /\ alerts' = alerts]_vars

\* A miss on a frame that follows window updates.
C7_Witness ==
    /\ w_alert
    /\ frames > 0
    /\ tracking_result = None
    /\ Len(sequence) > 0
    /\ frames > Len(appended)

\* C8 as stated: a result is present only when every entry of the window is a
\* non-zero pose vector.
C8_AllEntriesNonZero ==
    action_result # None =>
        \A i \in 1..Len(sequence) : sequence[i] # NoPose

\* C8 amended: a result is present only once at least SEQUENCE_LENGTH window
\* updates have happened and the newest window entry is a non-zero vector;
\* older entries may be zero vectors.
C8_NewestEntryNonZero ==
    action_result # None =>
        /\ Len(appended) >= SEQUENCE_LENGTH
        /\ sequence # <<>>
        /\ sequence[Len(sequence)] # NoPose

\* A result while a zero vector is still inside the window.
C8_Witness ==
    /\ action_result # None
    /\ InList(NoPose, sequence)

\* C9: without tracking, after SEQUENCE_LENGTH frames, a zero-vector frame
\* yields no result and the next frame with a non-zero vector yields one.
C9_ReadinessReturns ==
    (/\ ~w_alert
     /\ Len(appended) >= SEQUENCE_LENGTH + 2
     /\ appended[Len(appended) - 1] = NoPose
     /\ appended[Len(appended)] # NoPose)
    => (action_result # None /\ Len(sequence) = SEQUENCE_LENGTH)

\* C10: the window is the last min(k, SEQUENCE_LENGTH) appended vectors in the
\* order they were appended, and it changes only by a frame's append-then-
\* truncate (or with the fresh detector of a new session).
C10_WindowIsFifo ==
    /\ [](LET k == Len(appended)
              n == Min(k, SEQUENCE_LENGTH)
          IN  /\ Len(sequence) = n
              /\ \A i \in 1..n : sequence[i] = appended[k - n + i])
    /\ [][sequence' # sequence =>
            \/ /\ FrameStep
               /\ appended' = Append(appended, Get(keypoints'))
               /\ sequence' = LastN(Append(sequence, Get(keypoints')),
                                    SEQUENCE_LENGTH)
            \/ /\ pc = "queued"
               /\ sequence' = <<>>]_vars

\* The oldest vector has been evicted and the window differs from the first
\* SEQUENCE_LENGTH vectors of the session.
C10_Witness ==
    /\ Len(appended) > SEQUENCE_LENGTH
    /\ sequence # SubSeq(appended, 1, SEQUENCE_LENGTH)

\* The closed set of labels a result can carry.
Labels == {Actions[i] : i \in DOMAIN Actions}
\* Every vector appended to the window in the session is a non-zero vector.
AllPosesNonZero == \A i \in 1..Len(appended) : appended[i] # NoPose

\* C11: in a session without tracking whose frames all give a non-zero pose
\* vector, frames 1..SEQUENCE_LENGTH-1 have no result, and frame
\* SEQUENCE_LENGTH and every later frame has a result whose label is one of
\* the five actions.
C11_NonTrackingResults ==
    (~w_alert /\ frames > 0 /\ AllPosesNonZero) =>
        IF frames < SEQUENCE_LENGTH
        THEN action_result = None
        ELSE /\ action_result # None
             /\ Get(action_result).action \in Labels

\* C12: in a tracking session whose tracker misses the first k frames and
\* then finds the subject, with a non-zero pose vector, on every later frame,
\* no frame before frame k + SEQUENCE_LENGTH has a result and frame
\* k + SEQUENCE_LENGTH has one.
C12_TrackingFirstResult ==
    (w_alert /\ frames > 0 /\ ~late_miss /\ AllPosesNonZero) =>
        /\ Len(appended) < SEQUENCE_LENGTH => action_result = None
        /\ Len(appended) = SEQUENCE_LENGTH => action_result # None

\* C13: every alert carries Punching or Kicking and is emitted while
\* processing a frame on which its identity is tracked and classified with
\* that label; an identity never classified malicious is in no alert.
C13_AlertsAreMalicious ==
    /\ [](\A i \in 1..Len(alerts) :
            /\ alerts[i].action \in {"Punching", "Kicking"}
            /\ alerts[i].id \in classified)
    /\ [][alerts' # alerts =>
            /\ FrameStep
            /\ w_alert
            /\ track_result' # None
            /\ action_result' # None
            /\ alerts' = Append(alerts,
                    [id |-> Get(track_result').id,
                     action |-> Get(action_result').action])]_vars

\* One identity has been alerted and another one is tracked, classified with
\* a harmless label and not alerted.
C13_Witness ==
    /\ Len(alerts) = 1
    /\ track_result # None
    /\ Get(track_result).id \notin classified
    /\ Get(action_result).action = "Waving"

\* C14: the identity of a TrackingResult is the track id the tracker assigned
\* to the selected candidate.
C14_IdentityIsTrackId ==
    tracked # None => Get(tracked).id = boxes[1].track_id

\* C15: only detections of the person category are considered, so the
\* candidate a TrackingResult is built from is a person.
C15_OnlyPersons ==
    tracked # None => boxes[1].cls = 0

\* C16: track_person returns nothing exactly when the detector returns no
\* candidate; otherwise it returns one result that depends on the candidate
\* at index 0 only.
C16_FirstCandidateOnly ==
    /\ [](tracked = None <=> Len(boxes) = 0)
    /\ [][(Len(boxes) > 0 /\ Len(boxes') > 0 /\ boxes'[1] = boxes[1])
            => tracked' = tracked]_vars

\* Two candidates with different confidences; the result follows the first.
C16_Witness ==
    /\ Len(boxes) = 2
    /\ boxes[1].conf10 = 10
    /\ boxes[2].conf10 = 5
    /\ Get(tracked).id = 1

\* C17: a session starts with an empty pose window and an empty list of
\* alerted identities: its first result needs SEQUENCE_LENGTH window updates
\* of its own, and an identity alerted in an earlier session is alerted again
\* at its first malicious classification in the new session.
C17_SessionsStartFresh ==
    /\ [][(pc = "queued" /\ pc' # "queued") =>
            (sequence' = <<>> /\ mal_people' = <<>>)]_vars
    /\ [](action_result # None => Len(appended) >= SEQUENCE_LENGTH)
    /\ [](\A id \in past_alerted :
            AlertsFor(id) = IF id \in classified THEN 1 ELSE 0)

\* An identity alerted in the first session is alerted in the second one.
C17_Witness ==
    /\ sessions = 2
    /\ \E id \in past_alerted : AlertsFor(id) = 1

\* C18: once the quit key has ended the loop no frame is pulled, written or
\* alerted; the recorder is released before the source's exit(), exit() comes
\* before complete, and complete is emitted exactly once.
C18_QuitUnwindsInOrder ==
    /\ [](/\ completes <= 1
          /\ pc = "done" => completes = 1
          /\ completes = 1 => source = "exited"
          /\ source = "exited" => recorder \in {"none", "released"})
    /\ [][(pc # "queued" /\ pc # "loop") =>
            /\ frames' = frames
            /\ written' = written
            /\ alerts' = alerts]_vars

\* A recorded session ended by the quit key after some frames.
C18_Witness ==
    /\ pc = "done"
    /\ frames > 0
    /\ written = frames
    /\ recorder = "released"
    /\ source = "exited"
    /\ completes = 1

\* C19: a worker asked to record without a filename fails with the
\* configuration error before its loop: no frame is pulled or written and no
\* alert is emitted.
C19_NoFilenameFailsEarly ==
    (w_record /\ w_filename = None /\ pc # "queued") =>
        /\ pc = "raised"
        /\ raised = Some("Filename cannot be None if record is True")
        /\ recorder = "unset"
        /\ frames = 0
        /\ written = 0
        /\ alerts = <<>>

C19_Witness ==
    /\ w_record
    /\ w_filename = None
    /\ pc = "raised"

\* C20: a failure of the heartbeat command or of the video channel inside
\* Drone.next_frame is reported as (False, None) and no exception leaves
\* next_frame.
C20_FailuresAreReported ==
    (/\ drone_call # None
     /\ \/ Get(drone_call).heartbeat = "raise"
        \/ Get(drone_call).read = "raise")
    => /\ Get(drone_call).kind = "return"
       /\ Get(drone_call).value = <<FALSE, None>>

\* C21: predict_action returns the label of the class with the maximum score
\* among 0 Running, 1 Punching, 2 Waving, 3 Kicking, 4 Walking, with that
\* class's score; among classes sharing the maximum the lowest index wins.
C21_FirstMaximumWins ==
    predicted # None =>
        \E i \in 0..4 :
            LET res == Get(scores)
            IN  /\ \A j \in 0..4 : res[j] <= res[i]
                /\ \A j \in 0..(i - 1) : res[j] < res[i]
                /\ Get(predicted).action =
                       <<"Running", "Punching", "Waving", "Kicking",
                         "Walking">>[i + 1]
                /\ Get(predicted).probability = res[i]

\* Punching and Kicking share the maximum: Punching is returned.
C21_Witness ==
    /\ predicted # None
    /\ Get(scores)[1] = Get(scores)[3]
    /\ Get(scores)[1] > Get(scores)[0]
    /\ Get(scores)[1] > Get(scores)[2]
    /\ Get(scores)[1] > Get(scores)[4]
    /\ Get(predicted).action = "Punching"

\* C22: get_unique_filename returns stream_type + ext when no such file
\* exists, otherwise stream_type + "_" + k + ext for the smallest k >= 1 that
\* names no existing file; the returned name is never the name of an
\* existing recording.
C22_UniqueFilename ==
    unique # None =>
        LET u == Get(unique)
            plain == <<u.stream_type, u.extension>>
            numbered(k) == <<u.stream_type, "_", k, u.extension>>
        IN  /\ u.value \notin files
            /\ plain \notin files => u.value = plain
            /\ plain \in files =>
                   \E k \in 1..(MaxCount + 1) :
                       /\ u.value = numbered(k)
                       /\ \A j \in 1..(k - 1) : numbered(j) \in files

\* Webcam.avi and Webcam_1.avi exist: Webcam_2.avi is proposed.
C22_Witness ==
    /\ unique # None
    /\ <<"Webcam", ".avi">> \in files
    /\ <<"Webcam", "_", 1, ".avi">> \in files
    /\ Get(unique).value = <<"Webcam", "_", 2, ".avi">>

\* C23: the mode of a session is the alert flag given to its worker: it
\* changes only when a new worker is created, every frame is handled by
\* that mode, and toggling the alert checkbox changes neither the mode nor
\* the alerts of the running session.
C23_ModeFixedPerSession ==
    [][/\ is_alert' # is_alert =>
            (w_alert' = w_alert /\ alerts' = alerts
                /\ mal_people' = mal_people)
       /\ w_alert' # w_alert => (pc' = "queued" /\ sessions' = sessions + 1)
       /\ FrameStep =>
            IF w_alert
            THEN tracking_result' = None => appended' = appended
            ELSE /\ Len(appended') = Len(appended) + 1
                 /\ track_result' = None
                 /\ alerts' = alerts]_vars

\* A tracking session alerts although the checkbox has been cleared.
C23_Witness ==
    /\ pc = "loop"
    /\ w_alert
    /\ ~is_alert
    /\ Len(alerts) = 1

\* C24: tracking_inference returns a tracking result and an action result
\* together or neither of them, so the alert test of run() never reads the
\* action of an absent result.
C24_TrackImpliesAction ==
    /\ track_result # None => action_result # None
    /\ raised # Some("AttributeError")

\* The tracker found somebody whose pose was not valid: both are absent.
C24_Witness ==
    /\ w_alert
    /\ frames > 0
    /\ tracking_result # None
    /\ track_result = None
    /\ action_result = None

\* C25: has_frame() of a Webcam or PreRecorded source is true exactly when
\* the most recent next_frame() returned a valid frame, and false before any
\* next_frame() and after a failed one.
C25_HasFrameFollowsNextFrame ==
    cam # None =>
        (has_frame(Get(cam)) <=> (cam_call # None /\ Get(cam_call)[1]))

\* The complete signal of the last worker has been handled.
Handled == pc = "done" /\ ~pending_complete

\* C26: when complete is handled, end_stream shows the saved message, with
\* the session's filename, if and only if the session was recording, and it
\* never concatenates a None filename, whatever the record checkbox did
\* during the session.
C26_SavedIffRecorded ==
    Handled =>
        /\ message.kind # "TypeError"
        /\ message.kind = "saved" <=> w_record
        /\ message.kind = "saved" => message.name = w_filename

\* A worker has been handed to the thread pool and its complete signal has
\* not been handled.
WorkerActive == pc # "none" /\ ~Handled

\* C27: while a worker is active the start button is disabled, and a worker
\* is started only when no worker is active.
C27_OneSessionAtATime ==
    /\ [](WorkerActive => ~start_enabled)
    /\ [][sessions' # sessions =>
            /\ ~WorkerActive
            /\ start_enabled
            /\ ~start_enabled'
            /\ sessions' = sessions + 1]_vars

\* The second session runs, the first one having been completed.
C27_Witness ==
    /\ sessions = 2
    /\ pc = "loop"
    /\ frames > 0
    /\ ~start_enabled

\* C28: the box (center x, center y, width, height) becomes x = int(center x
\* - width / 2), y = int(center y - height / 2), int(width), int(height),
\* and the region of interest is rows y..y+h and columns x..x+w of the frame.
C28_BoxConversion ==
    tracked # None =>
        LET b == boxes[1].box
            t == Get(tracked)
        IN  /\ 8 * t.x <= 2 * b.cx4 - b.w4
            /\ 2 * b.cx4 - b.w4 < 8 * (t.x + 1)
            /\ 8 * t.y <= 2 * b.cy4 - b.h4
            /\ 2 * b.cy4 - b.h4 < 8 * (t.y + 1)
            /\ 4 * t.w <= b.w4 /\ b.w4 < 4 * (t.w + 1)
            /\ 4 * t.h <= b.h4 /\ b.h4 < 4 * (t.h + 1)
            /\ t.roi = {<<r, c>> : r \in t.y..(t.y + t.h - 1),
                                   c \in t.x..(t.x + t.w - 1)}

\* Center 2, width 2.5 and height 3: the corner is int(0.75) = 0 and the
\* region has 3 rows of 2 columns.
C28_Witness ==
    /\ tracked # None
    /\ boxes[1].box = [cx4 |-> 8, cy4 |-> 8, w4 |-> 10, h4 |-> 12]
    /\ Get(tracked).x = 0
    /\ Get(tracked).w = 2
    /\ Cardinality(Get(tracked).roi) = 6

\* C29: a recording session has written one frame for each frame pulled,
\* frames without a pose or a tracked person included; a session that does
\* not record has written none.
C29_OneWritePerFrame ==
    written = IF w_record THEN frames ELSE 0

\* A recording session whose last of several frames had nobody tracked.
C29_Witness ==
    /\ w_record
    /\ w_alert
    /\ frames > 1
    /\ tracking_result = None
    /\ written = frames

\* C30: on the same frames and the same tracker and pose outputs, the alerts
\* run() has emitted are the alert_received list of the test harness.
C30_HarnessSameAlerts ==
    alert_received = alerts

\* The stream has ended after two alerts.
C30_Witness ==
    /\ pc \in {"done", "raised"}
    /\ Len(alerts) = 2
    /\ alert_received = alerts

====
